---- MODULE Spec2Model ----
(***************************************************************************)
(* Model of the two caches of kuzminal/cache_strategies:                   *)
(*   - lru.LRU       (src/pkg/cache/lru/lru_cache.go)                      *)
(*   - lfu.LFUCache  (src/unnamed/part_000, lines 217-434)                 *)
(* A caller constructs one of the two caches and then issues operations on *)
(* it, one at a time (the caches are single-threaded).  container/list     *)
(* lists are sequences, front first; a *list.Element is identified by the  *)
(* key of the item it holds, a frequency node by its freq.                 *)
(***************************************************************************)
EXTENDS Integers, Sequences, FiniteSets

\* ---------------------------------------------------------------- bounds
NumKeys == 3
NumVals == 2
MaxCap == 2
MaxFreq == 3

Keys == 1..NumKeys
Values == 1..NumVals

\* The value lru.LRU.Get returns on a miss (the empty string).
EmptyString == 0
\* The value lfu.LFUCache.Get returns on a miss (nil).
Nil == 0

VARIABLES
    cache,        \* "lru" or "lfu": the cache the caller constructed
    panicked,     \* a call panicked: the goroutine unwound, nothing follows
    lruCapacity,  \* LRU.capacity
    lruItems,     \* LRU.items: the keys of the map
    lruQueue,     \* LRU.queue: sequence of Item, front first
    lfuCapacity,  \* LFUCache.capacity
    minFreq,      \* LFUCache.minFreq
    lfuItems,     \* LFUCache.items: the keys of the map
    freqLists,    \* LFUCache.freqLists: the frequencies of the map
    freqNodes,    \* LFUCache.freqNodes: sequence of FrequencyNode, front first
    ret,          \* the last call: its name, its key, its value (the capacity
                  \* asked for, for New), its result and the keys it dropped
    touchOrder,   \* history: the cached keys, latest touched first
    addRun        \* history: the keys added so far, while only Adds of new keys ran

vars == << cache, panicked, lruCapacity, lruItems, lruQueue, lfuCapacity, minFreq,
           lfuItems, freqLists, freqNodes, ret, touchOrder, addRun >>

lruVars == << lruCapacity, lruItems, lruQueue >>
lfuVars == << lfuCapacity, minFreq, lfuItems, freqLists, freqNodes >>

\* ------------------------------------------------------- container/list
RECURSIVE SelectSeqBy(_, _)
\* The subsequence of s whose elements' keys are in the set ks.
SelectSeqBy(s, ks) ==
    IF s = << >> THEN << >>
    ELSE IF Head(s) \in ks THEN << Head(s) >> \o SelectSeqBy(Tail(s), ks)
    ELSE SelectSeqBy(Tail(s), ks)

RemoveAt(s, i) == SubSeq(s, 1, i - 1) \o SubSeq(s, i + 1, Len(s))

SeqRange(s) == { s[i] : i \in 1..Len(s) }

\* The position in the list l of the element holding the item of this key.
ElementOf(l, key) == CHOOSE i \in 1..Len(l) : l[i].Key = key

QueueKeys(l) == [ i \in 1..Len(l) |-> l[i].Key ]

\* Faulty variant of MoveToFront: it leaves the element where it is.
MoveToFrontStays(l, key) == l
\* list.MoveToFront(element), the element being the one items[key] points to.
MoveToFront(l, key) ==
    LET i == ElementOf(l, key) IN << l[i] >> \o RemoveAt(l, i)

\* list.PushFront(item)
PushFront(l, item) == << item >> \o l

\* list.Remove(element)
ListRemove(l, key) == RemoveAt(l, ElementOf(l, key))

\* ------------------------------------------------------------------ LRU
Item(key, value) == [ Key |-> key, Value |-> value ]

\* Faulty variant of removeLastElement: it removes the front of the queue.
removeFirstElement(q, its) ==
    IF Len(q) > 0
    THEN [ queue |-> Tail(q), items |-> its \ { q[1].Key } ]
    ELSE [ queue |-> q, items |-> its ]
\* Faulty variant of removeLastElement: it does not unlink the element.
removeLastElementKeepsElement(q, its) ==
    IF Len(q) > 0
    THEN [ queue |-> q, items |-> its \ { q[Len(q)].Key } ]
    ELSE [ queue |-> q, items |-> its ]
\* LRU.removeLastElement: the queue and the items after it.
removeLastElement(q, its) ==
    IF Len(q) > 0
    THEN [ queue |-> SubSeq(q, 1, Len(q) - 1), items |-> its \ { q[Len(q)].Key } ]
    ELSE [ queue |-> q, items |-> its ]

\* NewLRUCache(n): whether it panics, and the cache it returns.
NewLRUCache(n) ==
    [ panics |-> n <= 0, capacity |-> IF n <= 0 THEN 0 ELSE n ]

\* Faulty variant of LRUAddResult: an Add on a cached key stores the new value.
LRUAddOverwrite(cap, its, q, key, value) ==
    IF key \in its
    THEN LET i == ElementOf(q, key) IN
         [ ok |-> FALSE, items |-> its,
           queue |-> << Item(key, value) >> \o RemoveAt(q, i) ]
    ELSE IF cap = 0
    THEN [ ok |-> TRUE, items |-> its, queue |-> q ]
    ELSE LET r == IF Len(q) = cap THEN removeLastElement(q, its)
                  ELSE [ queue |-> q, items |-> its ]
         IN [ ok |-> TRUE, items |-> r.items \cup { key },
              queue |-> PushFront(r.queue, Item(key, value)) ]
\* The result of LRU.Add(key, value) in the state (cap, its, q).
LRUAddResult(cap, its, q, key, value) ==
    IF key \in its
    THEN [ ok |-> FALSE, items |-> its, queue |-> MoveToFront(q, key) ]
    ELSE IF cap = 0
    THEN [ ok |-> TRUE, items |-> its, queue |-> q ]
    ELSE LET r == IF Len(q) = cap THEN removeLastElement(q, its)
                  ELSE [ queue |-> q, items |-> its ]
         IN [ ok |-> TRUE, items |-> r.items \cup { key },
              queue |-> PushFront(r.queue, Item(key, value)) ]

\* The result of LRU.Get(key) in the state (its, q).
LRUGetResult(its, q, key) ==
    IF key \notin its
    THEN [ value |-> EmptyString, ok |-> FALSE, queue |-> q ]
    ELSE [ value |-> q[ElementOf(q, key)].Value, ok |-> TRUE,
           queue |-> MoveToFront(q, key) ]

\* Faulty variant of LRURemoveResult: it reports true for a key that is not cached.
LRURemoveAlwaysTrue(its, q, key) ==
    IF key \in its
    THEN [ ok |-> TRUE, items |-> its \ { key }, queue |-> ListRemove(q, key) ]
    ELSE [ ok |-> TRUE, items |-> its, queue |-> q ]
\* Faulty variant of LRURemoveResult: for a cached key it removes the last element.
LRURemoveLast(its, q, key) ==
    IF key \in its
    THEN [ ok |-> TRUE, items |-> removeLastElement(q, its).items,
           queue |-> removeLastElement(q, its).queue ]
    ELSE [ ok |-> FALSE, items |-> its, queue |-> q ]
\* The result of LRU.Remove(key) in the state (its, q).
LRURemoveResult(its, q, key) ==
    IF key \in its
    THEN [ ok |-> TRUE, items |-> its \ { key }, queue |-> ListRemove(q, key) ]
    ELSE [ ok |-> FALSE, items |-> its, queue |-> q ]

\* ------------------------------------------------------------------ LFU
\* A CacheItem, and a FrequencyNode with its list of items, front first.
CacheItem(key, value, frequency) ==
    [ Key |-> key, value |-> value, frequency |-> frequency ]

FrequencyNode(freq, elements) == [ freq |-> freq, elements |-> elements ]

\* The LFUCache fields the methods change.
LFU(mf, its, fl, fn) ==
    [ minFreq |-> mf, items |-> its, freqLists |-> fl, freqNodes |-> fn ]

\* Faulty variant of NewLFUCache: it accepts the capacity 0.
NewLFUCacheAllowZero(n) ==
    [ panics |-> n < 0, capacity |-> IF n < 0 THEN 0 ELSE n,
      c |-> LFU(0, {}, {}, << >>) ]
\* NewLFUCache(capacity): whether it panics, and the cache it returns.
NewLFUCache(n) ==
    [ panics |-> n <= 0, capacity |-> IF n <= 0 THEN 0 ELSE n,
      c |-> LFU(0, {}, {}, << >>) ]

\* The position in freqNodes of the node freqLists[freq] points to.
NodeOf(fn, freq) == CHOOSE i \in 1..Len(fn) : fn[i].freq = freq

\* The CacheItem of the element items[key] points to.
ItemOf(fn, key) ==
    LET i == CHOOSE i \in 1..Len(fn) :
                 \E j \in 1..Len(fn[i].elements) : fn[i].elements[j].Key = key
    IN fn[i].elements[ElementOf(fn[i].elements, key)]

\* elements.Remove(elem): a no-op unless elem is an element of this list.
ElementsRemove(l, key) ==
    IF \E j \in 1..Len(l) : l[j].Key = key THEN ListRemove(l, key) ELSE l

\* The loop of LFUCache.insertFrequencyNode, from the element at position i on.
RECURSIVE InsertScan(_, _, _)
InsertScan(fn, i, node) ==
    IF i > Len(fn) THEN Append(fn, node)
    ELSE IF node.freq = fn[i].freq THEN fn
    ELSE IF node.freq < fn[i].freq
    THEN SubSeq(fn, 1, i - 1) \o << node >> \o SubSeq(fn, i, Len(fn))
    ELSE InsertScan(fn, i + 1, node)

\* Faulty variant of insertFrequencyNode: it always pushes the node at the back.
insertFrequencyNodeAtBack(fn, node) == Append(fn, node)
\* LFUCache.insertFrequencyNode: the sorted insertion, freqNodes after it.
insertFrequencyNode(fn, node) ==
    IF Len(fn) = 0 \/ node.freq < fn[1].freq
    THEN << node >> \o fn
    ELSE InsertScan(fn, 1, node)

\* Faulty variant of addToFrequencyList: it pushes the item at the front.
addToFrequencyListAtFront(c, freq, item) ==
    LET c1 == IF freq \in c.freqLists THEN c
              ELSE [ c EXCEPT
                       !.freqNodes = insertFrequencyNode(@, FrequencyNode(freq, << >>)),
                       !.freqLists = @ \cup { freq } ]
        i == NodeOf(c1.freqNodes, freq)
    IN [ c1 EXCEPT !.freqNodes[i].elements = << item >> \o @ ]
\* LFUCache.addToFrequencyList(freq, item): the cache after it.
addToFrequencyList(c, freq, item) ==
    LET c1 == IF freq \in c.freqLists THEN c
              ELSE [ c EXCEPT
                       !.freqNodes = insertFrequencyNode(@, FrequencyNode(freq, << >>)),
                       !.freqLists = @ \cup { freq } ]
        i == NodeOf(c1.freqNodes, freq)
    IN [ c1 EXCEPT !.freqNodes[i].elements = Append(@, item) ]

\* LFUCache.removeFromFrequencyList(freq, elem), elem holding the item of key.
removeFromFrequencyList(c, freq, key) ==
    IF freq \in c.freqLists
    THEN LET i == NodeOf(c.freqNodes, freq)
             elements == ElementsRemove(c.freqNodes[i].elements, key)
         IN IF Len(elements) = 0
            THEN [ c EXCEPT !.freqNodes = RemoveAt(@, i),
                            !.freqLists = @ \ { freq } ]
            ELSE [ c EXCEPT !.freqNodes[i].elements = elements ]
    ELSE c

\* LFUCache.getFrequencyList(freq): nil, or the list of the node of freq.
getFrequencyList(c, freq) ==
    IF freq \in c.freqLists
    THEN [ isNil |-> FALSE, list |-> c.freqNodes[NodeOf(c.freqNodes, freq)].elements ]
    ELSE [ isNil |-> TRUE, list |-> << >> ]

\* Faulty variant of SetFrequency: the item keeps its old frequency.
SetFrequencySkipped(c, freq, key, newFreq) == c
\* updatedItem.frequency = newFreq, on the item of key, now in the list of freq.
SetFrequency(c, freq, key, newFreq) ==
    LET i == NodeOf(c.freqNodes, freq)
        j == ElementOf(c.freqNodes[i].elements, key)
    IN [ c EXCEPT !.freqNodes[i].elements[j].frequency = newFreq ]

\* item.value = value, on the item of key.
SetValue(c, key, value) ==
    LET i == CHOOSE i \in 1..Len(c.freqNodes) :
                 \E j \in 1..Len(c.freqNodes[i].elements) :
                     c.freqNodes[i].elements[j].Key = key
        j == ElementOf(c.freqNodes[i].elements, key)
    IN [ c EXCEPT !.freqNodes[i].elements[j].value = value ]

\* LFUCache.incrementFrequency(elem), elem = items[key]: the cache after it, or
\* the cache as the panic leaves it.  list.List.Len() on the nil list that
\* getFrequencyList returns is a nil pointer dereference.
incrementFrequency(c, key) ==
    LET item == ItemOf(c.freqNodes, key)
        oldFreq == item.frequency
        newFreq == oldFreq + 1
        c1 == removeFromFrequencyList(c, oldFreq, key)
        c2 == addToFrequencyList(c1, newFreq, item)
        c3 == SetFrequency(c2, newFreq, key, newFreq)
        old == getFrequencyList(c3, oldFreq)
    IN IF oldFreq = c3.minFreq
       THEN IF old.isNil
            THEN [ panics |-> TRUE, c |-> c3 ]
            ELSE IF Len(old.list) = 0
            THEN [ panics |-> FALSE, c |-> [ c3 EXCEPT !.minFreq = newFreq ] ]
            ELSE [ panics |-> FALSE, c |-> c3 ]
       ELSE [ panics |-> FALSE, c |-> c3 ]

\* Faulty variant of evict: it takes the last node of freqNodes.
evictBack(c) ==
    IF Len(c.freqNodes) = 0 THEN c
    ELSE LET n == Len(c.freqNodes)
             minFreqNode == c.freqNodes[n]
         IN LET lruElem == minFreqNode.elements[1]
                elements == Tail(minFreqNode.elements)
                c1 == [ c EXCEPT !.items = @ \ { lruElem.Key } ]
            IN IF Len(elements) = 0
               THEN [ c1 EXCEPT !.freqNodes = RemoveAt(@, n),
                                !.freqLists = @ \ { minFreqNode.freq } ]
               ELSE [ c1 EXCEPT !.freqNodes[n].elements = elements ]
\* LFUCache.evict: the cache after it.
evict(c) ==
    IF Len(c.freqNodes) = 0 THEN c
    ELSE LET minFreqNode == c.freqNodes[1]
         IN IF Len(minFreqNode.elements) > 0
            THEN LET lruElem == minFreqNode.elements[1]
                     elements == Tail(minFreqNode.elements)
                     c1 == [ c EXCEPT !.items = @ \ { lruElem.Key } ]
                 IN IF Len(elements) = 0
                    THEN [ c1 EXCEPT !.freqNodes = Tail(@),
                                     !.freqLists = @ \ { minFreqNode.freq } ]
                    ELSE [ c1 EXCEPT !.freqNodes[1].elements = elements ]
            ELSE c

\* The result of LFUCache.Get(key) on the cache c.
LFUGetResult(c, key) ==
    IF key \in c.items
    THEN LET r == incrementFrequency(c, key) IN
         IF r.panics
         THEN [ panics |-> TRUE, value |-> Nil, ok |-> FALSE, c |-> r.c ]
         ELSE [ panics |-> FALSE, value |-> ItemOf(r.c.freqNodes, key).value,
                ok |-> TRUE, c |-> r.c ]
    ELSE [ panics |-> FALSE, value |-> Nil, ok |-> FALSE, c |-> c ]

\* Faulty variant of LFUPutResult: an insertion leaves minFreq as it was.
LFUPutKeepMinFreq(cap, c, key, value) ==
    IF cap = 0 THEN [ panics |-> FALSE, c |-> c ]
    ELSE IF key \in c.items
    THEN incrementFrequency(SetValue(c, key, value), key)
    ELSE LET c1 == IF Cardinality(c.items) >= cap THEN evict(c) ELSE c
             c2 == addToFrequencyList(c1, 1, CacheItem(key, value, 1))
         IN [ panics |-> FALSE, c |-> [ c2 EXCEPT !.items = @ \cup { key } ] ]
\* Faulty variant of LFUPutResult: an insertion into a full cache does not evict.
LFUPutNoEvict(cap, c, key, value) ==
    IF cap = 0 THEN [ panics |-> FALSE, c |-> c ]
    ELSE IF key \in c.items
    THEN incrementFrequency(SetValue(c, key, value), key)
    ELSE LET c2 == addToFrequencyList(c, 1, CacheItem(key, value, 1))
         IN [ panics |-> FALSE,
              c |-> [ c2 EXCEPT !.items = @ \cup { key }, !.minFreq = 1 ] ]
\* The result of LFUCache.Put(key, value) on the cache c of capacity cap.
LFUPutResult(cap, c, key, value) ==
    IF cap = 0 THEN [ panics |-> FALSE, c |-> c ]
    ELSE IF key \in c.items
    THEN incrementFrequency(SetValue(c, key, value), key)
    ELSE LET c1 == IF Cardinality(c.items) >= cap THEN evict(c) ELSE c
             c2 == addToFrequencyList(c1, 1, CacheItem(key, value, 1))
         IN [ panics |-> FALSE,
              c |-> [ c2 EXCEPT !.items = @ \cup { key }, !.minFreq = 1 ] ]

\* LFUCache.Size()
Size(c) == Cardinality(c.items)

\* Faulty variant of LFUClearResult: it does not reset minFreq.
LFUClearKeepMinFreq(c) == LFU(c.minFreq, {}, {}, << >>)
\* The cache after LFUCache.Clear().
LFUClearResult(c) == LFU(0, {}, {}, << >>)

\* The LFU cache of the current state.
lfu == LFU(minFreq, lfuItems, freqLists, freqNodes)

\* ------------------------------------------------------------ histories
\* The keys in the order of their latest touch, key being touched now, kept for
\* the keys that are cached afterwards.
Touched(order, key, cached) ==
    SelectSeqBy(<< key >> \o SelectSeqBy(order, Keys \ { key }), cached)

NoRun == [ pure |-> FALSE, keys |-> << >> ]

\* The run of Adds after one more Add(key).
RunAfterAdd(run, key) ==
    IF run.pure /\ key \notin SeqRange(run.keys)
    THEN [ pure |-> TRUE, keys |-> Append(run.keys, key) ]
    ELSE NoRun

Call(op, key, val, ok, evicted) ==
    [ op |-> op, key |-> key, val |-> val, ok |-> ok, evicted |-> evicted ]

\* ---------------------------------------------------------- LRU actions
LRUAdd(key, value) ==
    /\ cache = "lru" /\ ~panicked
    /\ LET r == LRUAddResult(lruCapacity, lruItems, lruQueue, key, value) IN
        /\ lruItems' = r.items
        /\ lruQueue' = r.queue
        /\ ret' = Call("Add", key, value, r.ok, lruItems \ r.items)
        /\ touchOrder' = Touched(touchOrder, key, r.items)
        /\ addRun' = RunAfterAdd(addRun, key)
    /\ UNCHANGED << cache, panicked, lruCapacity, lfuVars >>

LRUGet(key) ==
    /\ cache = "lru" /\ ~panicked
    /\ LET r == LRUGetResult(lruItems, lruQueue, key) IN
        /\ lruQueue' = r.queue
        /\ ret' = Call("Get", key, r.value, r.ok, {})
        /\ touchOrder' = IF r.ok THEN Touched(touchOrder, key, lruItems)
                         ELSE touchOrder
    /\ addRun' = NoRun
    /\ UNCHANGED << cache, panicked, lruCapacity, lruItems, lfuVars >>

LRURemove(key) ==
    /\ cache = "lru" /\ ~panicked
    /\ LET r == LRURemoveResult(lruItems, lruQueue, key) IN
        /\ lruItems' = r.items
        /\ lruQueue' = r.queue
        /\ ret' = Call("Remove", key, EmptyString, r.ok, {})
        /\ touchOrder' = SelectSeqBy(touchOrder, r.items)
    /\ addRun' = NoRun
    /\ UNCHANGED << cache, panicked, lruCapacity, lfuVars >>

\* ---------------------------------------------------------- LFU actions
\* Frequencies are unbounded in the code: the model stops touching a key at MaxFreq.
Touchable(key) ==
    key \in lfuItems => ItemOf(freqNodes, key).frequency < MaxFreq

SetLFU(c) ==
    /\ minFreq' = c.minFreq
    /\ lfuItems' = c.items
    /\ freqLists' = c.freqLists
    /\ freqNodes' = c.freqNodes

LFUGet(key) ==
    /\ cache = "lfu" /\ ~panicked
    /\ Touchable(key)
    /\ LET r == LFUGetResult(lfu, key) IN
        /\ SetLFU(r.c)
        /\ panicked' = r.panics
        /\ ret' = Call("Get", key, r.value, r.ok, {})
        /\ touchOrder' = IF key \in lfuItems THEN Touched(touchOrder, key, r.c.items)
                         ELSE touchOrder
    /\ addRun' = NoRun
    /\ UNCHANGED << cache, lfuCapacity, lruVars >>

LFUPut(key, value) ==
    /\ cache = "lfu" /\ ~panicked
    /\ Touchable(key)
    /\ LET r == LFUPutResult(lfuCapacity, lfu, key, value) IN
        /\ SetLFU(r.c)
        /\ panicked' = r.panics
        /\ ret' = Call("Put", key, value, ~r.panics, lfuItems \ r.c.items)
        /\ touchOrder' = Touched(touchOrder, key, r.c.items)
    /\ addRun' = NoRun
    /\ UNCHANGED << cache, lfuCapacity, lruVars >>

LFUClear ==
    /\ cache = "lfu" /\ ~panicked
    /\ SetLFU(LFUClearResult(lfu))
    /\ ret' = Call("Clear", 0, Nil, TRUE, lfuItems)
    /\ touchOrder' = << >>
    /\ addRun' = NoRun
    /\ UNCHANGED << cache, panicked, lfuCapacity, lruVars >>

\* ----------------------------------------------------------------- Init
InitLRU(n) ==
    /\ cache = "lru"
    /\ panicked = NewLRUCache(n).panics
    /\ lruCapacity = NewLRUCache(n).capacity
    /\ lruItems = {}
    /\ lruQueue = << >>
    /\ lfuCapacity = 0
    /\ minFreq = 0
    /\ lfuItems = {}
    /\ freqLists = {}
    /\ freqNodes = << >>
    /\ ret = Call("New", 0, n, ~NewLRUCache(n).panics, {})
    /\ touchOrder = << >>
    /\ addRun = [ pure |-> TRUE, keys |-> << >> ]

InitLFU(n) ==
    /\ cache = "lfu"
    /\ panicked = NewLFUCache(n).panics
    /\ lruCapacity = 0
    /\ lruItems = {}
    /\ lruQueue = << >>
    /\ lfuCapacity = NewLFUCache(n).capacity
    /\ minFreq = NewLFUCache(n).c.minFreq
    /\ lfuItems = NewLFUCache(n).c.items
    /\ freqLists = NewLFUCache(n).c.freqLists
    /\ freqNodes = NewLFUCache(n).c.freqNodes
    /\ ret = Call("New", 0, n, ~NewLFUCache(n).panics, {})
    /\ touchOrder = << >>
    /\ addRun = NoRun

Init == \E n \in (-1)..MaxCap : InitLRU(n) \/ InitLFU(n)

Next ==
    \/ \E key \in Keys, value \in Values : LRUAdd(key, value)
    \/ \E key \in Keys : LRUGet(key)
    \/ \E key \in Keys : LRURemove(key)
    \/ \E key \in Keys : LFUGet(key)
    \/ \E key \in Keys, value \in Values : LFUPut(key, value)
    \/ LFUClear

Spec == Init /\ [][Next]_vars

\* ---------------------------------------------------------------- claims
\* The frequency of the cached key, in the bucket sequence fn.
Freq(fn, key) == ItemOf(fn, key).frequency

\* The last n elements of the sequence s (all of s when it is shorter).
LastN(s, n) == IF Len(s) <= n THEN s ELSE SubSeq(s, Len(s) - n + 1, Len(s))

\* The step is a call of op on the cache of kind c.
IsCall(c, op) == cache = c /\ ~panicked /\ ret'.op = op

C2_SizeWithinCapacity ==
    /\ (cache = "lru" /\ lruCapacity > 0)
         => Cardinality(lruItems) <= lruCapacity /\ Len(lruQueue) <= lruCapacity
    /\ (cache = "lfu" /\ lfuCapacity > 0) => Size(lfu) <= lfuCapacity

\* C2 witness: a Put into a full LFU cache has evicted, the cache is full again.
C2_Witness ==
    /\ cache = "lfu" /\ ret.op = "Put" /\ ret.evicted # {}
    /\ Size(lfu) = lfuCapacity /\ lfuCapacity > 1

\* C3: LFU: the entry a Put evicts has the minimum frequency of the cached
\* entries: no cached entry has a strictly lower frequency.
C3_EvictsMinimumFrequency ==
    [][ (IsCall("lfu", "Put") /\ ret'.evicted # {})
        => /\ ret'.key \notin lfuItems
           /\ Cardinality(ret'.evicted) = 1
           /\ \A e \in ret'.evicted : \A k \in lfuItems :
                Freq(freqNodes, e) <= Freq(freqNodes, k) ]_vars

\* C3 witness: a Put evicted while an entry of frequency 2 or more stayed cached.
C3_Witness ==
    /\ cache = "lfu" /\ ~panicked /\ ret.op = "Put" /\ ret.evicted # {}
    /\ \E k \in lfuItems \ { ret.key } : Freq(freqNodes, k) >= 2

\* C4: LFU tie-break: among the cached entries of the lowest frequency, a Put
\* evicts the one that entered that frequency the earliest (the least recently
\* touched of them).
C4_TieBreakLeastRecentlyTouched ==
    [][ (IsCall("lfu", "Put") /\ ret'.evicted # {})
        => LET low == { k \in lfuItems :
                          \A j \in lfuItems : Freq(freqNodes, k) <= Freq(freqNodes, j) }
               byTouch == SelectSeqBy(touchOrder, low)
           IN ret'.evicted = { byTouch[Len(byTouch)] } ]_vars

\* C4 witness: a Put evicted one of several entries of frequency 1.
C4_Witness ==
    /\ cache = "lfu" /\ ~panicked /\ ret.op = "Put" /\ ret.evicted # {}
    /\ \E k \in lfuItems \ { ret.key } : Freq(freqNodes, k) = 1

\* C5: round trip, either cache: after put(k, v) has returned, for any key k,
\* cached before or not, get(k) returns (v, true).
C5_RoundTrip ==
    /\ (cache = "lru" /\ ret.op = "Add")
         => LET g == LRUGetResult(lruItems, lruQueue, ret.key)
            IN g.ok /\ g.value = ret.val
    /\ (cache = "lfu" /\ ret.op = "Put")
         => /\ ~panicked
            /\ LET g == LFUGetResult(lfu, ret.key)
               IN ~g.panics /\ g.ok /\ g.value = ret.val

\* C6: LRU: Add(k, v') on a cached key k returns false, moves k's entry to the
\* head of the queue, keeps k's stored value and every other item, and leaves
\* the cached keys and the queue length as they were, also in a full cache.
C6_AddExistingKey ==
    [][ (IsCall("lru", "Add") /\ ret'.key \in lruItems)
        => /\ ret'.ok = FALSE
           /\ lruQueue'[1] = lruQueue[ElementOf(lruQueue, ret'.key)]
           /\ SelectSeqBy(QueueKeys(lruQueue'), Keys \ { ret'.key })
                = SelectSeqBy(QueueKeys(lruQueue), Keys \ { ret'.key })
           /\ SeqRange(lruQueue') = SeqRange(lruQueue)
           /\ lruItems' = lruItems
           /\ Len(lruQueue') = Len(lruQueue) ]_vars

\* C6 witness: an Add with another value on a key cached in a full cache.
C6_Witness ==
    /\ cache = "lru" /\ ret.op = "Add" /\ ~ret.ok
    /\ Len(lruQueue) = lruCapacity /\ lruCapacity > 1
    /\ lruQueue[1].Key = ret.key /\ lruQueue[1].Value # ret.val

\* C7: LFU: Put(k, v2) on a cached key k completes, stores v2 for k, evicts
\* nothing, leaves Size() as it was, and a following Get(k) returns (v2, true).
C7_PutExistingKey ==
    [][ (IsCall("lfu", "Put") /\ ret'.key \in lfuItems)
        => /\ ~panicked'
           /\ lfuItems' = lfuItems
           /\ ItemOf(freqNodes', ret'.key).value = ret'.val
           /\ LET g == LFUGetResult(LFU(minFreq', lfuItems', freqLists', freqNodes'),
                                    ret'.key)
              IN ~g.panics /\ g.ok /\ g.value = ret'.val ]_vars

\* C8: LFU: the Put that inserts a key leaves it at frequency 1, and every later
\* Get hit or Put on the key returns with its frequency raised by exactly 1.
C8_FrequencyCountsTouches ==
    [][ /\ (IsCall("lfu", "Put") /\ ret'.key \notin lfuItems)
            => Freq(freqNodes', ret'.key) = 1
        /\ (cache = "lfu" /\ ~panicked /\ ret'.op \in { "Put", "Get" }
                /\ ret'.key \in lfuItems)
            => /\ ~panicked'
               /\ Freq(freqNodes', ret'.key) = Freq(freqNodes, ret'.key) + 1 ]_vars

\* The smallest frequency of a cached entry (0 in the empty cache).
SmallestFrequency ==
    IF lfuItems = {} THEN 0
    ELSE CHOOSE f \in { Freq(freqNodes, k) : k \in lfuItems } :
             \A k \in lfuItems : f <= Freq(freqNodes, k)

C10_MinFreqAfterEviction ==
    [][ (IsCall("lfu", "Put") /\ lfuCapacity = 2 /\ ret'.key \notin lfuItems
            /\ minFreq = 1
            /\ \E a, b \in lfuItems :
                 /\ lfuItems = { a, b }
                 /\ Freq(freqNodes, a) = 2 /\ Freq(freqNodes, b) = 1)
        => /\ \A e \in ret'.evicted : Freq(freqNodes, e) = 1
           /\ Cardinality(ret'.evicted) = 1
           /\ minFreq' = 2 ]_vars

\* C11: LRU: NewLRUCache(0) constructs a cache without failing; on it every
\* Add returns true, every Get returns not-found, and the queue and the index
\* stay empty.
C11_ZeroCapacityLRU ==
    (cache = "lru" /\ lruCapacity = 0 /\ (ret.op = "New" => ret.val = 0))
      => /\ ~panicked
         /\ lruItems = {} /\ lruQueue = << >>
         /\ ret.op = "Add" => ret.ok
         /\ ret.op = "Get" => ~ret.ok

\* C12: construction: NewLFUCache(c) panics for every c <= 0 and NewLRUCache(c)
\* for every c < 0, and then no call follows; for every c >= 1 either
\* constructor returns an empty cache of capacity c (no entries, no buckets,
\* minFreq = 0).
C12_ConstructionChecksCapacity ==
    ret.op = "New"
      => /\ (cache = "lfu" /\ ret.val <= 0) => panicked /\ ~ENABLED Next
         /\ (cache = "lru" /\ ret.val < 0) => panicked /\ ~ENABLED Next
         /\ ret.val >= 1
              => /\ ~panicked /\ ret.ok
                 /\ cache = "lru"
                      => lruCapacity = ret.val /\ lruItems = {} /\ lruQueue = << >>
                 /\ cache = "lfu"
                      => /\ lfuCapacity = ret.val /\ Size(lfu) = 0
                         /\ freqNodes = << >> /\ freqLists = {} /\ minFreq = 0

\* C12 witness: NewLFUCache(0) has panicked.
C12_Witness ==
    cache = "lfu" /\ ret.op = "New" /\ ret.val = 0 /\ panicked

\* C13: a miss changes nothing: LRU.Get, LRU.Remove and LFUCache.Get on a key
\* that is not cached return ok = false and leave the cache as it was.
C13_MissChangesNothing ==
    [][ /\ (IsCall("lru", "Get") /\ ret'.key \notin lruItems)
            => ~ret'.ok /\ UNCHANGED << lruVars, lfuVars, panicked >>
        /\ (IsCall("lru", "Remove") /\ ret'.key \notin lruItems)
            => ~ret'.ok /\ UNCHANGED << lruVars, lfuVars, panicked >>
        /\ (IsCall("lfu", "Get") /\ ret'.key \notin lfuItems)
            => ~ret'.ok /\ UNCHANGED << lruVars, lfuVars, panicked >> ]_vars

\* C13 witness: a Remove missed in a cache that holds entries.
C13_Witness ==
    cache = "lru" /\ ret.op = "Remove" /\ ~ret.ok /\ lruItems # {}

\* C14: LRU: Remove(k) on a cached key returns true, deletes k from the index
\* and from the queue and leaves the other entries, their values and their
\* order as they were; Remove(k) again returns false and changes nothing, and
\* Get(k) returns not-found.
C14_RemoveCachedKey ==
    /\ [][ (IsCall("lru", "Remove") /\ ret'.key \in lruItems)
           => /\ ret'.ok
              /\ lruItems' = lruItems \ { ret'.key }
              /\ lruQueue' = SelectSeq(lruQueue, LAMBDA it : it.Key # ret'.key)
              /\ Len(lruQueue') = Len(lruQueue) - 1 ]_vars
    /\ [] ( (cache = "lru" /\ ret.op = "Remove" /\ ret.ok)
            => /\ LRURemoveResult(lruItems, lruQueue, ret.key)
                    = [ ok |-> FALSE, items |-> lruItems, queue |-> lruQueue ]
               /\ ~LRUGetResult(lruItems, lruQueue, ret.key).ok )

\* C14 witness: a Remove deleted a key and another entry stays cached.
C14_Witness ==
    cache = "lru" /\ ret.op = "Remove" /\ ret.ok /\ Len(lruQueue) > 0

\* C15: LFU: after Clear() the index, the bucket sequence and the frequency
\* lookup are empty, minFreq = 0, every Get returns not-found, and the cache is
\* in the state of a freshly constructed cache of the same capacity.
C15_ClearResets ==
    (cache = "lfu" /\ ret.op = "Clear")
      => /\ Size(lfu) = 0 /\ lfuItems = {}
         /\ freqNodes = << >> /\ freqLists = {}
         /\ minFreq = 0
         /\ ~panicked
         /\ \A k \in Keys : ~LFUGetResult(lfu, k).ok /\ ~LFUGetResult(lfu, k).panics
         /\ lfu = NewLFUCache(lfuCapacity).c
         /\ lfuCapacity = NewLFUCache(lfuCapacity).capacity

\* C15 witness: Clear has emptied a cache that held entries.
C15_Witness ==
    cache = "lfu" /\ ret.op = "Clear" /\ Cardinality(ret.evicted) > 1

\* C16: after a successful construction every call of either cache runs to
\* completion: none raises a runtime fault, none stops midway.
C16_NoRuntimeFault ==
    ret.op # "New" => ~panicked

\* C17: LFU: in a cache whose only entry k was inserted by Put, a following
\* Get(k) or Put(k, v2) completes, and minFreq is still 1 afterwards.
C17_TouchOfSingleEntry ==
    [][ (cache = "lfu" /\ ~panicked /\ ret'.op \in { "Get", "Put" }
            /\ lfuItems = { ret'.key } /\ Freq(freqNodes, ret'.key) = 1)
        => ~panicked' /\ minFreq' = 1 ]_vars

\* C18: LFU promotion: when a Get hit or a Put promotes the only entry of
\* bucket(c), c = minFreq, to c + 1, the call completes, bucket(c) is gone from
\* freqNodes and freqLists, the entry is the tail of bucket(c + 1), and
\* minFreq = c + 1.
C18_PromotionOutOfMinBucket ==
    [][ (cache = "lfu" /\ ~panicked /\ ret'.op \in { "Get", "Put" }
            /\ ret'.key \in lfuItems
            /\ Freq(freqNodes, ret'.key) = minFreq
            /\ Len(getFrequencyList(lfu, minFreq).list) = 1)
        => /\ ~panicked'
           /\ minFreq \notin freqLists'
           /\ \A i \in 1..Len(freqNodes') : freqNodes'[i].freq # minFreq
           /\ minFreq + 1 \in freqLists'
           /\ LET l == freqNodes'[NodeOf(freqNodes', minFreq + 1)].elements
              IN l[Len(l)].Key = ret'.key
           /\ minFreq' = minFreq + 1 ]_vars

\* C19: LFU: after every completed Put, Get or Clear the buckets of freqNodes
\* are in strictly increasing order of freq, none is empty, and freqLists maps
\* exactly the frequencies of the buckets of freqNodes.
C19_BucketsSortedAndNonEmpty ==
    (cache = "lfu" /\ ~panicked)
      => /\ \A i, j \in 1..Len(freqNodes) :
                i < j => freqNodes[i].freq < freqNodes[j].freq
         /\ \A i \in 1..Len(freqNodes) : Len(freqNodes[i].elements) > 0
         /\ freqLists = { freqNodes[i].freq : i \in 1..Len(freqNodes) }

\* C19 witness: after an eviction emptied bucket 1, a Put has put a new bucket 1
\* in front of a bucket of a higher frequency.
C19_Witness ==
    /\ cache = "lfu" /\ ~panicked /\ ret.op = "Put" /\ ret.evicted # {}
    /\ Len(freqNodes) >= 2
    /\ Len(freqNodes[1].elements) = 1 /\ freqNodes[1].elements[1].Key = ret.key

C21_QueueInTouchOrder ==
    /\ [] ( cache = "lru" => QueueKeys(lruQueue) = touchOrder )
    /\ [][ (IsCall("lru", "Get") /\ ret'.key \in lruItems)
           => /\ ret'.ok
              /\ ret'.val = lruQueue[ElementOf(lruQueue, ret'.key)].Value
              /\ lruQueue'[1].Key = ret'.key
              /\ SelectSeq(lruQueue', LAMBDA it : it.Key # ret'.key)
                   = SelectSeq(lruQueue, LAMBDA it : it.Key # ret'.key)
              /\ SeqRange(lruQueue') = SeqRange(lruQueue)
              /\ lruItems' = lruItems ]_vars

\* C21 witness: a Get hit in a cache of several entries, its key now at the head.
C21_Witness ==
    /\ cache = "lru" /\ ret.op = "Get" /\ ret.ok
    /\ Len(lruQueue) > 1 /\ lruQueue[1].Key = ret.key /\ lruQueue[1].Value = ret.val

\* C22: LRU: after every Add, Get or Remove the keys of the index are the keys
\* of the queue entries, no key occurs twice in the queue, each index entry
\* points to the queue element of that key, and len(items) = queue.Len().
C22_IndexMatchesQueue ==
    cache = "lru"
      => /\ lruItems = SeqRange(QueueKeys(lruQueue))
         /\ \A i, j \in 1..Len(lruQueue) :
                lruQueue[i].Key = lruQueue[j].Key => i = j
         /\ \A k \in lruItems :
                /\ \E i \in 1..Len(lruQueue) : lruQueue[i].Key = k
                /\ lruQueue[ElementOf(lruQueue, k)].Key = k
         /\ Cardinality(lruItems) = Len(lruQueue)

\* C22 witness: after Gets or Removes, an Add has evicted from a full cache.
C22_Witness ==
    /\ cache = "lru" /\ ret.op = "Add" /\ ret.evicted # {} /\ ~addRun.pure
    /\ Len(lruQueue) = lruCapacity /\ lruCapacity > 1

RECURSIVE SumOfLengths(_)
\* The sum of the lengths of the buckets of fn.
SumOfLengths(fn) ==
    IF fn = << >> THEN 0 ELSE Len(Head(fn).elements) + SumOfLengths(Tail(fn))

\* The places (bucket, position) of the elements of fn that hold the key.
PlacesOf(fn, key) ==
    { p \in (1..Len(fn)) \X (1..NumKeys + 1) :
        p[2] <= Len(fn[p[1]].elements) /\ fn[p[1]].elements[p[2]].Key = key }

\* C23: LFU: after every completed Put, Get or Clear each key of items has its
\* element in exactly one bucket, the freq of that bucket is the frequency of
\* the entry, and the lengths of the buckets add up to len(items).
C23_IndexMatchesBuckets ==
    (cache = "lfu" /\ ~panicked)
      => /\ \A k \in lfuItems :
                /\ Cardinality(PlacesOf(freqNodes, k)) = 1
                /\ \A p \in PlacesOf(freqNodes, k) :
                     /\ freqNodes[p[1]].freq = freqNodes[p[1]].elements[p[2]].frequency
                     /\ ItemOf(freqNodes, k) = freqNodes[p[1]].elements[p[2]]
         /\ \A k \in Keys \ lfuItems : PlacesOf(freqNodes, k) = {}
         /\ SumOfLengths(freqNodes) = Cardinality(lfuItems)
         /\ Size(lfu) = Cardinality(lfuItems)

\* C23 witness: a Get has promoted one of two entries, and both are indexed.
C23_Witness ==
    /\ cache = "lfu" /\ ~panicked /\ ret.op = "Get" /\ ret.ok
    /\ Cardinality(lfuItems) >= 2 /\ Freq(freqNodes, ret.key) >= 2
    /\ SumOfLengths(freqNodes) = Cardinality(lfuItems)
====
